---------------------------- MODULE Spec2Model ----------------------------
(***************************************************************************)
(* Model of the bevy-tetirs rules engine: src/src/tetris.rs (shape table,  *)
(* rotate, GameField, does_piece_fit) and the two chained Update systems   *)
(* of src/src/main.rs (player_input_system, auto_fall_and_lock_system).    *)
(*                                                                         *)
(* The field is the flat row-major Vec<u8> of the source, indexed          *)
(* y * FIELD_WIDTH + x.  FIELD_WIDTH and FIELD_HEIGHT are 12 and 18 in the *)
(* source (tetris.rs:6-7); here they are scaled down so that the state     *)
(* space is finite and small, and every operator is written in terms of    *)
(* the two names exactly as the source is.                                 *)
(***************************************************************************)
EXTENDS Integers, Sequences, FiniteSets, TLC

\* ------------------------------------------------------------------ bounds
FIELD_WIDTH == 6
FIELD_HEIGHT == 6
\* Score is an unbounded counter: ticks are taken only while it is below this.
MaxScore == 300
\* does_piece_fit is exercised at positions this far outside the field.
MaxOff == 3
\* Frames of a game whose keys and starting piece are logged.
MaxTicks == 3
\* rotate is called with r from -MaxRot to MaxRot.
MaxRot == 6

\* --------------------------------------------------------------- variables
VARIABLES
    field,   \* GameField.field : [0 .. W*H-1 -> 0..9]
    piece,   \* the active Tetromino: [shape_type, rotation, x, y]
    score,   \* Score.0
    state,   \* GameState: "Playing" | "GameOver"
    pc,      \* which system of the chain runs next: "input" | "gravity" ;
             \* the call-level specifications use "call" | "loop" | "fill" | "done"
    last,    \* what the last gravity step did: [fired, locked, lines, newShape]
    call     \* the arguments, loop variables and result of one direct call

vars == <<field, piece, score, state, pc, last, call>>

\* ------------------------------------------------------------- shape table
TETROMINO_SHAPES ==
    << <<".",".","X",".",".",".","X",".",".",".","X",".",".",".","X",".">>,
       <<".",".","X",".",".","X","X",".",".",".","X",".",".",".",".",".">>,
       <<".",".",".",".",".","X","X",".",".","X","X",".",".",".",".",".">>,
       <<".",".","X",".",".","X","X",".",".","X",".",".",".",".",".",".">>,
       <<".","X",".",".",".","X","X",".",".",".","X",".",".",".",".",".">>,
       <<".","X",".",".",".","X",".",".",".","X","X",".",".",".",".",".">>,
       <<".",".","X",".",".",".","X",".",".","X","X",".",".",".",".",".">> >>

Shapes == 0 .. (Len(TETROMINO_SHAPES) - 1)

\* Rust's % on i32 truncates toward zero: the remainder has the sign of a.
RustRem(a, b) == IF a >= 0 THEN a % b ELSE 0 - ((0 - a) % b)

\* The value standing for a panic (unreachable!() in rotate).
Panic == -1

\* rotate with the 90 and 270 degree formulas exchanged.
rotate_swapped(px, py, r) ==
    LET r_mod_4 == RustRem(r, 4)
    IN  CASE r_mod_4 = 0 -> py * 4 + px
          [] r_mod_4 = 1 -> 3 - py + (px * 4)
          [] r_mod_4 = 2 -> 15 - (py * 4) - px
          [] r_mod_4 = 3 -> 12 + py - (px * 4)
          [] OTHER -> Panic

\* rotate whose 90 degree formula lacks the row stride (12 + py - px).
rotate_noStride(px, py, r) ==
    LET r_mod_4 == RustRem(r, 4)
    IN  CASE r_mod_4 = 0 -> py * 4 + px
          [] r_mod_4 = 1 -> 12 + py - px
          [] r_mod_4 = 2 -> 15 - (py * 4) - px
          [] r_mod_4 = 3 -> 3 - py + (px * 4)
          [] OTHER -> Panic

\* rotate(px, py, r): index into the unrotated 16-cell string.
rotate(px, py, r) ==
    LET r_mod_4 == RustRem(r, 4)
    IN  CASE r_mod_4 = 0 -> py * 4 + px
          [] r_mod_4 = 1 -> 12 + py - (px * 4)
          [] r_mod_4 = 2 -> 15 - (py * 4) - px
          [] r_mod_4 = 3 -> 3 - py + (px * 4)
          [] OTHER -> Panic

\* TETROMINO_SHAPES[shape].chars().nth(piece_index) == Some('X')
\* (nth is None outside 0..15, so the comparison is false there).
IsX(shape_index, piece_index) ==
    /\ piece_index >= 0
    /\ piece_index < 16
    /\ TETROMINO_SHAPES[shape_index + 1][piece_index + 1] = "X"

\* The 16 local cells in the order the two nested loops visit them
\* (py_local outer, px_local inner): cell k is (k % 4, k \div 4).
LocalPx(k) == k % 4
LocalPy(k) == k \div 4

\* ------------------------------------------------------------------- field
Cells == 0 .. (FIELD_WIDTH * FIELD_HEIGHT - 1)

\* GameField::new without the bottom border row.
GameField_new_noBottom ==
    [i \in Cells |->
        LET x == i % FIELD_WIDTH
        IN  IF x = 0 \/ x = FIELD_WIDTH - 1 THEN 9 ELSE 0]

\* GameField::new
GameField_new ==
    [i \in Cells |->
        LET x == i % FIELD_WIDTH
            y == i \div FIELD_WIDTH
        IN  IF x = 0 \/ x = FIELD_WIDTH - 1 \/ y = FIELD_HEIGHT - 1
            THEN 9 ELSE 0]

\* get_block that reads out-of-range coordinates as empty.
get_block_zeroOutside(f, x, y) ==
    IF x < FIELD_WIDTH /\ y < FIELD_HEIGHT
    THEN f[y * FIELD_WIDTH + x]
    ELSE 0

\* GameField::get_block (x, y are usize: never negative)
get_block(f, x, y) ==
    IF x < FIELD_WIDTH /\ y < FIELD_HEIGHT
    THEN f[y * FIELD_WIDTH + x]
    ELSE 9

\* GameField::set_block
set_block(f, x, y, value) ==
    IF x < FIELD_WIDTH /\ y < FIELD_HEIGHT
    THEN [f EXCEPT ![y * FIELD_WIDTH + x] = value]
    ELSE f


\* The field cell (field_x, field_y) that local cell k of a piece lands on.
FieldX(pos_x, k) == pos_x + LocalPx(k)
FieldY(pos_y, k) == pos_y + LocalPy(k)

InField(field_x, field_y) ==
    /\ field_x >= 0
    /\ field_x < FIELD_WIDTH
    /\ field_y >= 0
    /\ field_y < FIELD_HEIGHT

\* LockCell with the target row off by one (field_y = piece.y + py_local + 1).
LockCell_rowBelow(f, p, k) ==
    LET piece_index == rotate(LocalPx(k), LocalPy(k), p.rotation)
        field_x == FieldX(p.x, k)
        field_y == FieldY(p.y, k) + 1
    IN  IF IsX(p.shape_type, piece_index) /\ InField(field_x, field_y)
        THEN set_block(f, field_x, field_y, p.shape_type + 1)
        ELSE f

\* LockCell storing shape_index + 2.
LockCell_plusTwo(f, p, k) ==
    LET piece_index == rotate(LocalPx(k), LocalPy(k), p.rotation)
        field_x == FieldX(p.x, k)
        field_y == FieldY(p.y, k)
    IN  IF IsX(p.shape_type, piece_index) /\ InField(field_x, field_y)
        THEN set_block(f, field_x, field_y, p.shape_type + 2)
        ELSE f

\* One iteration of lock_piece's loop body, for local cell k.
LockCell(f, p, k) ==
    LET piece_index == rotate(LocalPx(k), LocalPy(k), p.rotation)
        field_x == FieldX(p.x, k)
        field_y == FieldY(p.y, k)
    IN  IF IsX(p.shape_type, piece_index) /\ InField(field_x, field_y)
        THEN set_block(f, field_x, field_y, p.shape_type + 1)
        ELSE f

RECURSIVE LockFrom(_, _, _)
LockFrom(f, p, k) ==
    IF k = 16 THEN f ELSE LockFrom(LockCell(f, p, k), p, k + 1)

\* GameField::lock_piece
lock_piece(f, p) == LockFrom(f, p, 0)

\* CellRejects that takes only border cells (9) for occupied.
CellRejects_borderOnly(f, shape_index, rotation, pos_x, pos_y, k) ==
    LET piece_index == rotate(LocalPx(k), LocalPy(k), rotation)
        field_x == FieldX(pos_x, k)
        field_y == FieldY(pos_y, k)
    IN  /\ IsX(shape_index, piece_index)
        /\ \/ ~InField(field_x, field_y)
           \/ get_block(f, field_x, field_y) = 9

\* One iteration of does_piece_fit's loop body: TRUE iff local cell k makes
\* the function return false (occupied cell out of bounds or on a non-zero cell).
CellRejects(f, shape_index, rotation, pos_x, pos_y, k) ==
    LET piece_index == rotate(LocalPx(k), LocalPy(k), rotation)
        field_x == FieldX(pos_x, k)
        field_y == FieldY(pos_y, k)
    IN  /\ IsX(shape_index, piece_index)
        /\ \/ ~InField(field_x, field_y)
           \/ get_block(f, field_x, field_y) # 0

RECURSIVE FitFrom(_, _, _, _, _, _)
FitFrom(f, shape_index, rotation, pos_x, pos_y, k) ==
    IF k = 16 THEN TRUE
    ELSE IF CellRejects(f, shape_index, rotation, pos_x, pos_y, k) THEN FALSE
    ELSE FitFrom(f, shape_index, rotation, pos_x, pos_y, k + 1)

\* does_piece_fit
does_piece_fit(f, shape_index, rotation, pos_x, pos_y) ==
    FitFrom(f, shape_index, rotation, pos_x, pos_y, 0)

\* -------------------------------------------------- check_and_clear_lines
\* line_is_full whose x_check loop stops one cell short (1..FIELD_WIDTH - 2).
line_is_full_short(f, read_row) ==
    \A x_check \in 1 .. (FIELD_WIDTH - 3) : get_block(f, x_check, read_row) # 0

\* The inner x_check loop with its break: the row is full iff no interior
\* cell reads 0.
line_is_full(f, read_row) ==
    \A x_check \in 1 .. (FIELD_WIDTH - 2) : get_block(f, x_check, read_row) # 0

\* The x_copy loop: interior cells of read_row written to write_row, left to right.
RECURSIVE CopyRowFrom(_, _, _, _)
CopyRowFrom(f, read_row, write_row, x_copy) ==
    IF x_copy > FIELD_WIDTH - 2 THEN f
    ELSE CopyRowFrom(set_block(f, x_copy, write_row, get_block(f, x_copy, read_row)),
                     read_row, write_row, x_copy + 1)

\* The decrement without its write_row > 0 guard.
NextWriteRow_unguarded(write_row) == write_row - 1

\* The guarded decrement of the write cursor (write_row is usize).
NextWriteRow(write_row) ==
    IF write_row > 0 THEN write_row - 1 ELSE write_row

\* One iteration of the read_row loop.  st = [f, write_row, lines].
ClearStep(st, read_row) ==
    IF line_is_full(st.f, read_row)
    THEN [st EXCEPT !.lines = @ + 1]
    ELSE [f |-> IF st.write_row # read_row
                THEN CopyRowFrom(st.f, read_row, st.write_row, 1)
                ELSE st.f,
          write_row |-> NextWriteRow(st.write_row),
          lines |-> st.lines]

\* for read_row in (0..FIELD_HEIGHT - 1).rev(), from read_row down to 0.
RECURSIVE ClearLoop(_, _)
ClearLoop(st, read_row) ==
    IF read_row < 0 THEN st
    ELSE ClearLoop(ClearStep(st, read_row), read_row - 1)

\* The x_fill_top loop for one row.
RECURSIVE ZeroRowFrom(_, _, _)
ZeroRowFrom(f, y_fill_top, x_fill_top) ==
    IF x_fill_top > FIELD_WIDTH - 2 THEN f
    ELSE ZeroRowFrom(set_block(f, x_fill_top, y_fill_top, 0), y_fill_top, x_fill_top + 1)

\* for y_fill_top in 0..=write_row, from y_fill_top on.
RECURSIVE FillTopFrom(_, _, _)
FillTopFrom(f, write_row, y_fill_top) ==
    IF y_fill_top > write_row THEN f
    ELSE IF y_fill_top >= FIELD_HEIGHT - 1
         THEN FillTopFrom(f, write_row, y_fill_top + 1)
         ELSE FillTopFrom(ZeroRowFrom(f, y_fill_top, 1), write_row, y_fill_top + 1)

\* check_and_clear_lines without the fill of the top rows.
FillTop_none(f, write_row) == f

FillTop(f, write_row) == FillTopFrom(f, write_row, 0)

ClearStart(f) == [f |-> f, write_row |-> FIELD_HEIGHT - 2, lines |-> 0]

\* GameField::check_and_clear_lines: the field afterwards and the value returned.
check_and_clear_lines(f) ==
    LET st == ClearLoop(ClearStart(f), FIELD_HEIGHT - 2)
    IN  [f |-> FillTop(st.f, st.write_row), ret |-> st.lines]


\* ------------------------------------------------------------ active piece
\* The spawn rule (CurrentPiece::new): rotation 0, x = FIELD_WIDTH / 2 - 2, y = 0.
CurrentPiece_new(shape_index) ==
    [shape_type |-> shape_index,
     rotation |-> 0,
     x |-> (FIELD_WIDTH \div 2) - 2,
     y |-> 0]

\* Tetromino::new, the constructor main.rs calls; tetris.rs does not hold it.
\* It is the spawn rule above on the Tetromino's fields.
Tetromino_new(shape_type) == CurrentPiece_new(shape_type)

\* ----------------------------------------------------- player_input_system
\* The keys just pressed in one frame.
Keys == [left : BOOLEAN, right : BOOLEAN, down : BOOLEAN, z : BOOLEAN]

intended_dx(keys) ==
    (IF keys.left THEN 1 ELSE 0) - (IF keys.right THEN 1 ELSE 0)

player_intended_dy(keys) == IF keys.down THEN 1 ELSE 0

\* if intended_dx != 0 { ... }: the horizontal move.
MoveHorizontal(f, p, dx) ==
    IF dx # 0 /\ does_piece_fit(f, p.shape_type, p.rotation, p.x + dx, p.y)
    THEN [p EXCEPT !.x = p.x + dx]
    ELSE p

\* if player_intended_dy != 0 { ... }: the soft drop.
SoftDrop(f, p, dy) ==
    IF dy # 0 /\ does_piece_fit(f, p.shape_type, p.rotation, p.x, p.y + dy)
    THEN [p EXCEPT !.y = p.y + dy]
    ELSE p

\* if intended_rotation_change { ... }
Rotate(f, p, change) ==
    LET new_rotation == (p.rotation + 1) % 4
    IN  IF change /\ does_piece_fit(f, p.shape_type, new_rotation, p.x, p.y)
        THEN [p EXCEPT !.rotation = new_rotation]
        ELSE p

\* position.x is unsigned: checked_add_signed is None when x + dx < 0, and
\* the system then returns before looking at the other intents.
EarlyReturn(p, dx) == dx < 0 /\ p.x + dx < 0

\* The piece after player_input_system has handled the keys.
InputResult(f, p, keys) ==
    IF EarlyReturn(p, intended_dx(keys)) THEN p
    ELSE Rotate(f,
                SoftDrop(f,
                         MoveHorizontal(f, p, intended_dx(keys)),
                         player_intended_dy(keys)),
                keys.z)

\* The frame log of a logged game (call.op = "tick"): the piece the input
\* system started from, and how many times each system has run.
InputLogged(keys) ==
    IF call.op = "tick"
    THEN [call EXCEPT !.start = piece, !.inputs = @ + 1]
    ELSE call

GravityLogged ==
    IF call.op = "tick" THEN [call EXCEPT !.gravities = @ + 1] ELSE call

\* player_input_system without its run_if(in_state(GameState::Playing)).
player_input_system_noRunIf(keys) ==
    /\ pc = "input"
    /\ score < MaxScore
    /\ call.op = "tick" => call.inputs < MaxTicks
    /\ piece' = InputResult(field, piece, keys)
    /\ pc' = "gravity"
    /\ call' = InputLogged(keys)
    /\ UNCHANGED <<field, score, state, last>>

player_input_system(keys) ==
    /\ pc = "input"
    /\ state = "Playing"
    /\ score < MaxScore
    /\ call.op = "tick" => call.inputs < MaxTicks
    /\ piece' = InputResult(field, piece, keys)
    /\ pc' = "gravity"
    /\ call' = InputLogged(keys)
    /\ UNCHANGED <<field, score, state, last>>

\* ----------------------------------------------- auto_fall_and_lock_system
NoShape == 0 - 1

\* No gravity step has run yet.
IdleLast == [fired |-> FALSE, locked |-> FALSE, lines |-> 0, newShape |-> NoShape]

\* The line bonus as lines_cleared * 100 instead of (1 << lines_cleared) * 100.
ScoreAfterLock_linear(sc, lines_cleared) ==
    IF lines_cleared > 0
    THEN sc + 25 + lines_cleared * 100
    ELSE sc + 25

\* score.0 += 25, then (1 << lines_cleared) * 100 more when lines were cleared.
ScoreAfterLock(sc, lines_cleared) ==
    IF lines_cleared > 0
    THEN sc + 25 + (2 ^ lines_cleared) * 100
    ELSE sc + 25

\* LockBranch with the spawn fit check made before the lines are cleared.
LockBranch_checkBeforeClear ==
    \E shape_type \in Shapes :
        LET locked == lock_piece(field, piece)
            cleared == check_and_clear_lines(locked)
            tetromino == Tetromino_new(shape_type)
        IN  /\ field' = cleared.f
            /\ score' = ScoreAfterLock(score, cleared.ret)
            /\ state' = IF ~does_piece_fit(locked, tetromino.shape_type,
                                           tetromino.rotation, tetromino.x, tetromino.y)
                        THEN "GameOver" ELSE state
            /\ last' = [fired |-> TRUE, locked |-> TRUE,
                        lines |-> cleared.ret, newShape |-> shape_type]
            /\ UNCHANGED piece

\* The else branch left empty: a piece that cannot move down is not locked.
LockBranch_noLock ==
    /\ last' = [fired |-> TRUE, locked |-> FALSE, lines |-> 0, newShape |-> NoShape]
    /\ UNCHANGED <<field, piece, score, state>>

\* The else branch of the gravity step: lock, score, clear, spawn check.
\* shape_type is the rng.gen_range(0..TETROMINO_SHAPES.len()) draw.  The
\* Tetromino built from it is only tested for fit; the active piece (the
\* entity behind CurrentPiece.id) is not written.
LockBranch ==
    \E shape_type \in Shapes :
        LET locked == lock_piece(field, piece)
            cleared == check_and_clear_lines(locked)
            tetromino == Tetromino_new(shape_type)
        IN  /\ field' = cleared.f
            /\ score' = ScoreAfterLock(score, cleared.ret)
            /\ state' = IF ~does_piece_fit(cleared.f, tetromino.shape_type,
                                           tetromino.rotation, tetromino.x, tetromino.y)
                        THEN "GameOver" ELSE state
            /\ last' = [fired |-> TRUE, locked |-> TRUE,
                        lines |-> cleared.ret, newShape |-> shape_type]
            /\ UNCHANGED piece

\* The gravity step with force_down set in every frame, timer or not.
auto_fall_and_lock_system_noTimer(just_finished) ==
    /\ pc = "gravity"
    /\ state = "Playing"
    /\ pc' = "input"
    /\ call' = GravityLogged
    /\ does_piece_fit(field, piece.shape_type, piece.rotation, piece.x, piece.y + 1)
    /\ piece' = [piece EXCEPT !.y = piece.y + 1]
    /\ last' = [fired |-> just_finished, locked |-> FALSE,
                lines |-> 0, newShape |-> NoShape]
    /\ UNCHANGED <<field, score, state>>

\* just_finished: whether fall_timer fired in this frame.
auto_fall_and_lock_system(just_finished) ==
    /\ pc = "gravity"
    /\ state = "Playing"
    /\ pc' = "input"
    /\ call' = GravityLogged
    /\ IF ~just_finished
       THEN /\ last' = [fired |-> FALSE, locked |-> FALSE,
                        lines |-> 0, newShape |-> NoShape]
            /\ UNCHANGED <<field, piece, score, state>>
       ELSE IF does_piece_fit(field, piece.shape_type, piece.rotation,
                              piece.x, piece.y + 1)
       THEN /\ piece' = [piece EXCEPT !.y = piece.y + 1]
            /\ last' = [fired |-> TRUE, locked |-> FALSE,
                        lines |-> 0, newShape |-> NoShape]
            /\ UNCHANGED <<field, score, state>>
       ELSE LockBranch

\* ------------------------------------------------------------ the game
NoCall == [op |-> "none"]

\* (player_input_system, auto_fall_and_lock_system).chain(): the system that
\* runs first in a frame.
FirstSystem_gravity == "gravity"

FirstSystem == "input"

\* setup_game and spawn_new_piece: a new field, score 0, a first piece of
\* some shape at the spawn position, state Playing.
Init ==
    /\ field = GameField_new
    /\ \E s \in Shapes : piece = Tetromino_new(s)
    /\ score = 0
    /\ state = "Playing"
    /\ pc = FirstSystem
    /\ last = IdleLast
    /\ call = NoCall

Next ==
    \/ \E keys \in Keys : player_input_system(keys)
    \/ \E just_finished \in BOOLEAN : auto_fall_and_lock_system(just_finished)

Spec == Init /\ [][Next]_vars

\* fall_timer is TimerMode::Repeating and is ticked in every gravity step:
\* it finishes in infinitely many of them.  This is
\* SF_vars(auto_fall_and_lock_system(TRUE)) written out: the step is enabled
\* exactly when the gravity system is due to run while Playing, and a step
\* of Next is that step exactly when it leaves pc = "gravity" with the timer
\* recorded as fired.
TimerFiresOften ==
    \/ <>[](~(pc = "gravity" /\ state = "Playing"))
    \/ []<><<pc = "gravity" /\ last'.fired>>_vars

\* The game with its scheduling: while Playing the Update schedule runs the
\* chain in every frame, and the fall timer fires infinitely often.
SpecLive ==
    /\ Init
    /\ [][Next]_vars
    /\ WF_vars(\E keys \in Keys : player_input_system(keys))
    /\ TimerFiresOften

\* The same game with the frame log kept, for MaxTicks frames.
InitTick ==
    /\ field = GameField_new
    /\ \E s \in Shapes : piece = Tetromino_new(s)
    /\ score = 0
    /\ state = "Playing"
    /\ pc = FirstSystem
    /\ last = IdleLast
    /\ call = [op |-> "tick", start |-> piece, inputs |-> 0, gravities |-> 0]

SpecTick == InitTick /\ [][Next]_vars



\* =========================================================================
\* Direct calls of the GameField methods and of does_piece_fit on fields
\* drawn from a bounded family, one call per behaviour.
\* =========================================================================
PlayRows == 0 .. (FIELD_HEIGHT - 2)
InnerCols == 1 .. (FIELD_WIDTH - 2)

\* The interior content a playable row is given: empty, full, one block at the
\* left, or full but for the rightmost interior cell.
RowKinds == {"empty", "full", "left", "gap"}

RowCell(kind, x) ==
    CASE kind = "empty" -> 0
      [] kind = "full"  -> (x % 7) + 1
      [] kind = "left"  -> IF x = 1 THEN 2 ELSE 0
      [] kind = "gap"   -> IF x = FIELD_WIDTH - 2 THEN 0 ELSE 3

\* The field whose playable row y has interior content rows[y]; borders as
\* GameField::new leaves them.
FieldOfRows(rows) ==
    [i \in Cells |->
        LET x == i % FIELD_WIDTH
            y == i \div FIELD_WIDTH
        IN  IF GameField_new[i] = 9 THEN 9 ELSE RowCell(rows[y], x)]

RowFields == {FieldOfRows(rows) : rows \in [PlayRows -> RowKinds]}

\* A new field with one locked block of value 1 at an interior cell.
OneBlockFields ==
    {set_block(GameField_new, x, y, 1) : x \in InnerCols, y \in PlayRows}

\* What the call-level specifications leave alone.
IdleGame ==
    /\ piece = Tetromino_new(0)
    /\ score = 0
    /\ state = "Playing"
    /\ last = IdleLast

\* ---- check_and_clear_lines as one call
InitClear ==
    /\ field \in RowFields
    /\ call = [op |-> "check_and_clear_lines", pre |-> field, ret |-> 0]
    /\ pc = "call"
    /\ IdleGame

ClearCall ==
    /\ pc = "call"
    /\ call.op = "check_and_clear_lines"
    /\ LET r == check_and_clear_lines(field)
       IN  /\ field' = r.f
           /\ call' = [call EXCEPT !.ret = r.ret]
    /\ pc' = "done"
    /\ UNCHANGED <<piece, score, state, last>>

NextClear == ClearCall

SpecClear == InitClear /\ [][NextClear]_vars

\* ---- check_and_clear_lines one loop iteration at a time
InitCursor ==
    /\ field \in RowFields
    /\ call = [op |-> "clear_loop", pre |-> field, read_row |-> FIELD_HEIGHT - 2,
               write_row |-> ClearStart(field).write_row,
               lines |-> ClearStart(field).lines, ret |-> 0]
    /\ pc = "loop"
    /\ IdleGame

\* One iteration of the read_row loop.
ClearIterate ==
    /\ pc = "loop"
    /\ LET st == ClearStep([f |-> field, write_row |-> call.write_row,
                            lines |-> call.lines], call.read_row)
       IN  /\ field' = st.f
           /\ call' = [call EXCEPT !.write_row = st.write_row,
                                   !.lines = st.lines,
                                   !.read_row = call.read_row - 1]
    /\ pc' = IF call.read_row = 0 THEN "fill" ELSE "loop"
    /\ UNCHANGED <<piece, score, state, last>>

\* The fill of the top rows and the return.
ClearFinish ==
    /\ pc = "fill"
    /\ field' = FillTop(field, call.write_row)
    /\ call' = [call EXCEPT !.ret = call.lines]
    /\ pc' = "done"
    /\ UNCHANGED <<piece, score, state, last>>

NextCursor == ClearIterate \/ ClearFinish

SpecCursor == InitCursor /\ [][NextCursor]_vars

\* ---- does_piece_fit as one call
FitXs == (0 - MaxOff) .. (FIELD_WIDTH - 1)
FitYs == (0 - 1) .. (FIELD_HEIGHT - 1)

InitFit ==
    /\ field \in {GameField_new} \cup OneBlockFields
    /\ \E s \in Shapes, r \in 0 .. 3, x \in FitXs, y \in FitYs :
           call = [op |-> "does_piece_fit", shape_index |-> s, rotation |-> r,
                   pos_x |-> x, pos_y |-> y, ret |-> FALSE]
    /\ pc = "call"
    /\ IdleGame

FitCall ==
    /\ pc = "call"
    /\ call.op = "does_piece_fit"
    /\ call' = [call EXCEPT !.ret = does_piece_fit(field, call.shape_index,
                                                   call.rotation, call.pos_x, call.pos_y)]
    /\ pc' = "done"
    /\ UNCHANGED <<field, piece, score, state, last>>

NextFit == FitCall

SpecFit == InitFit /\ [][NextFit]_vars

\* ---- player_input_system as one call
\* The placements of a piece that fit on f, position.x and position.y unsigned.
FittingPieces(f) ==
    {p \in [shape_type : Shapes, rotation : 0 .. 3,
            x : 0 .. (FIELD_WIDTH - 1), y : 0 .. (FIELD_HEIGHT - 1)] :
        does_piece_fit(f, p.shape_type, p.rotation, p.x, p.y)}

InitInput ==
    /\ field \in {GameField_new} \cup OneBlockFields
    /\ piece \in FittingPieces(field)
    /\ \E keys \in Keys : call = [op |-> "player_input_system", keys |-> keys, start |-> piece]
    /\ score = 0
    /\ state = "Playing"
    /\ last = IdleLast
    /\ pc = "call"

InputCall ==
    /\ pc = "call"
    /\ call.op = "player_input_system"
    /\ piece' = InputResult(field, piece, call.keys)
    /\ pc' = "done"
    /\ UNCHANGED <<field, score, state, last, call>>

NextInput == InputCall

SpecInput == InitInput /\ [][NextInput]_vars

\* ---- lock_piece as one call, on a piece that fits
FitPositions(f) ==
    {p \in [shape_type : Shapes, rotation : 0 .. 3, x : FitXs, y : FitYs] :
        does_piece_fit(f, p.shape_type, p.rotation, p.x, p.y)}

InitLock ==
    /\ field \in {GameField_new} \cup OneBlockFields
    /\ \E p \in FitPositions(field) : call = [op |-> "lock_piece", pre |-> field, p |-> p]
    /\ pc = "call"
    /\ IdleGame

LockCall ==
    /\ pc = "call"
    /\ call.op = "lock_piece"
    /\ field' = lock_piece(field, call.p)
    /\ pc' = "done"
    /\ UNCHANGED <<piece, score, state, last, call>>

NextLock == LockCall

SpecLock == InitLock /\ [][NextLock]_vars

\* ---- rotate as one call
InitRotate ==
    /\ \E px \in 0 .. 3, py \in 0 .. 3, r \in (0 - MaxRot) .. MaxRot :
           call = [op |-> "rotate", px |-> px, py |-> py, r |-> r, ret |-> 0]
    /\ field = GameField_new
    /\ pc = "call"
    /\ IdleGame

RotateCall ==
    /\ pc = "call"
    /\ call.op = "rotate"
    /\ call' = [call EXCEPT !.ret = rotate(call.px, call.py, call.r)]
    /\ pc' = "done"
    /\ UNCHANGED <<field, piece, score, state, last>>

NextRotate == RotateCall

SpecRotate == InitRotate /\ [][NextRotate]_vars

\* ---- get_block and set_block as one call each
\* usize coordinates up to one past the field on each axis.
BlockXs == 0 .. FIELD_WIDTH
BlockYs == 0 .. FIELD_HEIGHT

InitBlock ==
    /\ field \in {GameField_new} \cup OneBlockFields
    /\ \E op \in {"get_block", "set_block"}, x \in BlockXs, y \in BlockYs, v \in {0, 7} :
           call = [op |-> op, pre |-> field, x |-> x, y |-> y, value |-> v, ret |-> 0]
    /\ pc = "call"
    /\ IdleGame

GetBlockCall ==
    /\ pc = "call"
    /\ call.op = "get_block"
    /\ call' = [call EXCEPT !.ret = get_block(field, call.x, call.y)]
    /\ pc' = "done"
    /\ UNCHANGED <<field, piece, score, state, last>>

SetBlockCall ==
    /\ pc = "call"
    /\ call.op = "set_block"
    /\ field' = set_block(field, call.x, call.y, call.value)
    /\ pc' = "done"
    /\ UNCHANGED <<piece, score, state, last, call>>

NextBlock == GetBlockCall \/ SetBlockCall

SpecBlock == InitBlock /\ [][NextBlock]_vars


\* =========================================================================
\* Properties
\* =========================================================================
Cell(f, x, y) == f[y * FIELD_WIDTH + x]

\* The playable rows of f whose interior cells are all non-zero.
FullRowsOf(f) == {y \in PlayRows : \A x \in InnerCols : Cell(f, x, y) # 0}

\* The n-th smallest element of a finite set of integers (n from 1).
NthSmallest(S, n) == CHOOSE e \in S : Cardinality({t \in S : t < e}) = n - 1

\* Reference line clear: the non-full rows of f, in their order, packed
\* against the bottom playable row, zeros above.
RefCell(f, x, y) ==
    LET k == Cardinality(FullRowsOf(f))
    IN  IF y < k THEN 0
        ELSE Cell(f, x, NthSmallest(PlayRows \ FullRowsOf(f), y - k + 1))

\* C1: when no playable row is full, check_and_clear_lines returns 0 and
\* leaves every cell of the field unchanged, the top row y = 0 included.
C1_NoFullRowIsNoOp ==
    (pc = "done" /\ FullRowsOf(call.pre) = {})
        => (call.ret = 0 /\ field = call.pre)

\* C2: after any sequence of ticks from a new field every border cell
\* (x = 0, x = width-1 or y = height-1) still holds 9.
C2_BordersKept ==
    \A i \in Cells : GameField_new[i] = 9 => field[i] = 9

\* A piece has been locked and the lock cleared at least one row.
C2_Witness == pc = "input" /\ last.locked /\ last.lines > 0

\* Reference fit: every occupied cell of the rotated shape lands inside the
\* field on a cell holding 0.
RefFits(f, s, r, x, y) ==
    \A px \in 0 .. 3, py \in 0 .. 3 :
        IsX(s, rotate(px, py, r)) =>
            /\ x + px \in 0 .. (FIELD_WIDTH - 1)
            /\ y + py \in 0 .. (FIELD_HEIGHT - 1)
            /\ Cell(f, x + px, y + py) = 0

\* C3: does_piece_fit returns true iff every occupied cell of the rotated
\* shape lands inside the field on a cell holding 0; on a new field the
\* I-piece fits at x = floor(width/2)-2, y = 0 and does not fit at x = -2,
\* x = -3, y = height-4 or y = height-3.
C3_FitIffAllCellsFree ==
    pc = "done" =>
        /\ call.ret = RefFits(field, call.shape_index, call.rotation,
                              call.pos_x, call.pos_y)
        /\ (field = GameField_new /\ call.shape_index = 0 /\ call.rotation = 0) =>
              /\ (call.pos_x = (FIELD_WIDTH \div 2) - 2 /\ call.pos_y = 0) => call.ret
              /\ (call.pos_x \in {0 - 2, 0 - 3} /\ call.pos_y = 0) => ~call.ret
              /\ (call.pos_y \in {FIELD_HEIGHT - 4, FIELD_HEIGHT - 3}) => ~call.ret

\* A placement that an empty field would take and a locked block rejects.
C3_Witness ==
    /\ pc = "done"
    /\ call.op = "does_piece_fit"
    /\ ~call.ret
    /\ field # GameField_new
    /\ RefFits(GameField_new, call.shape_index, call.rotation, call.pos_x, call.pos_y)

\* C4: at the end of a tick in which a piece locked, the active piece is a
\* freshly spawned one: rotation 0, x = floor(width/2)-2, y = 0, shape in 0..6.
C4_LockRespawns ==
    (pc = "input" /\ last.locked) =>
        /\ piece.rotation = 0
        /\ piece.x = (FIELD_WIDTH \div 2) - 2
        /\ piece.y = 0
        /\ piece.shape_type \in Shapes

\* C5: the state goes from Playing to GameOver in exactly the ticks in which
\* a piece was locked and the newly built piece does not fit at its spawn
\* position and rotation on the field as it is after line clearing; every
\* other step leaves the state Playing.
C5_GameOverIffSpawnBlocked ==
    [][/\ state = "Playing"
       /\ pc = "input" => state' = "Playing"
       /\ pc = "gravity" =>
            (state' = "GameOver" <=>
                /\ last'.locked
                /\ ~RefFits(field', last'.newShape, 0, (FIELD_WIDTH \div 2) - 2, 0))]_vars

\* A lock has ended the game.
C5_Witness == state = "GameOver" /\ last.locked /\ pc = "input"

\* C6: a tick in which a piece locks and n rows are cleared adds exactly 25
\* to Score when n = 0 and 25 + 2^n * 100 when n > 0 (425 for n = 2); any
\* other step leaves Score unchanged; so Score never decreases.
C6_ScoreDelta ==
    [][/\ (pc = "gravity" /\ last'.locked /\ last'.lines = 0) => score' = score + 25
       /\ (pc = "gravity" /\ last'.locked /\ last'.lines > 0) =>
              score' = score + 25 + (2 ^ last'.lines) * 100
       /\ (pc = "gravity" /\ ~last'.locked) => score' = score
       /\ pc = "input" => score' = score
       /\ score' >= score
       /\ ScoreAfterLock(0, 2) = 425]_vars

\* A lock that cleared rows has been scored.
C6_Witness == pc = "input" /\ last.locked /\ last.lines > 0 /\ score >= 225

\* C7: for every field content check_and_clear_lines leaves the playable
\* interior equal to the reference result (non-full rows packed against the
\* bottom in their order, zeros above).
C7_ClearEqualsReference ==
    pc = "done" =>
        \A y \in PlayRows, x \in InnerCols :
            Cell(field, x, y) = RefCell(call.pre, x, y)

\* C8: with exactly one full playable row r the call returns 1, each playable
\* row 0 < y <= r holds the former content of row y-1, rows below r are
\* unchanged, the top row is all 0 and the bottom border is untouched.
C8_SingleFullRow ==
    (pc = "done" /\ Cardinality(FullRowsOf(call.pre)) = 1) =>
        LET r == CHOOSE y \in FullRowsOf(call.pre) : TRUE
        IN  /\ call.ret = 1
            /\ \A x \in InnerCols :
                  /\ Cell(field, x, 0) = 0
                  /\ Cell(field, x, FIELD_HEIGHT - 1) = 9
                  /\ \A y \in PlayRows :
                        /\ (0 < y /\ y <= r) => Cell(field, x, y) = Cell(call.pre, x, y - 1)
                        /\ y > r => Cell(field, x, y) = Cell(call.pre, x, y)

\* One full row with blocks in the top row, right above it and right below it.
C8_Witness ==
    /\ pc = "done"
    /\ call.op = "check_and_clear_lines"
    /\ Cardinality(FullRowsOf(call.pre)) = 1
    /\ \E r \in FullRowsOf(call.pre) :
          /\ r > 1
          /\ r < FIELD_HEIGHT - 2
          /\ Cell(call.pre, 1, 0) # 0
          /\ Cell(call.pre, 1, r - 1) # 0
          /\ Cell(call.pre, 1, r + 1) # 0

\* C9: the value returned by check_and_clear_lines is the number of playable
\* rows whose interior cells were all non-zero before the call.
C9_ReturnCountsFullRows ==
    pc = "done" => call.ret = Cardinality(FullRowsOf(call.pre))

\* Two full rows among rows that are full but for one cell.
C9_Witness ==
    /\ pc = "done"
    /\ call.op = "check_and_clear_lines"
    /\ call.ret = 2
    /\ \E y \in PlayRows \ FullRowsOf(call.pre) : Cell(call.pre, 1, y) = 3

\* C10: during check_and_clear_lines the write cursor stays within the
\* playable rows 0..height-2; when every playable row is full the call
\* returns height-1 and leaves every playable interior cell 0.
C10_CursorInRange ==
    /\ call.write_row \in PlayRows
    /\ (pc = "done" /\ FullRowsOf(call.pre) = PlayRows) =>
          /\ call.ret = FIELD_HEIGHT - 1
          /\ \A y \in PlayRows, x \in InnerCols : Cell(field, x, y) = 0

\* The call has returned on a field whose playable rows were all full.
C10_Witness ==
    /\ pc = "done"
    /\ call.op = "clear_loop"
    /\ FullRowsOf(call.pre) = PlayRows
    /\ call.write_row = FIELD_HEIGHT - 2


\* The field cell (x, y) is one that piece p occupies.
OccupiedAt(p, x, y) ==
    \E px \in 0 .. 3, py \in 0 .. 3 :
        /\ IsX(p.shape_type, rotate(px, py, p.rotation))
        /\ x = p.x + px
        /\ y = p.y + py

\* C11: for a piece that fits, lock_piece yields the prior field with each
\* of the piece's four occupied cells set to shape_index+1 and every other
\* cell unchanged.
C11_LockWritesFourCells ==
    pc = "done" =>
        /\ \A x \in 0 .. (FIELD_WIDTH - 1), y \in 0 .. (FIELD_HEIGHT - 1) :
              Cell(field, x, y) = IF OccupiedAt(call.p, x, y)
                                  THEN call.p.shape_type + 1
                                  ELSE Cell(call.pre, x, y)
        /\ Cardinality({i \in Cells : field[i] # call.pre[i]}) = 4

\* A rotated piece locked on a field that already held a block.
C11_Witness ==
    /\ pc = "done"
    /\ call.op = "lock_piece"
    /\ call.pre # GameField_new
    /\ call.p.rotation = 1
    /\ field # call.pre

\* C12: after any sequence of ticks from a new field every playable cell
\* (0 < x < width-1, 0 <= y < height-1) holds a value in 0..7, never 9.
C12_PlayableCellsInRange ==
    \A x \in InnerCols, y \in PlayRows : Cell(field, x, y) \in 0 .. 7

\* A piece of the last shape (stored as 7) has been locked.
C12_Witness ==
    /\ pc = "input"
    /\ last.locked
    /\ \E x \in InnerCols, y \in PlayRows : Cell(field, x, y) = 7


\* Reference handling of one frame's intents: each on its own, in the order
\* horizontal, soft drop, rotation, applied iff its candidate placement fits
\* (a horizontal target below 0 never does).
RefHorizontal(f, p, dx) ==
    IF /\ dx # 0
       /\ p.x + dx >= 0
       /\ RefFits(f, p.shape_type, p.rotation, p.x + dx, p.y)
    THEN [p EXCEPT !.x = p.x + dx] ELSE p

RefSoftDrop(f, p, down) ==
    IF down /\ RefFits(f, p.shape_type, p.rotation, p.x, p.y + 1)
    THEN [p EXCEPT !.y = p.y + 1] ELSE p

RefRotation(f, p, z) ==
    IF z /\ RefFits(f, p.shape_type, (p.rotation + 1) % 4, p.x, p.y)
    THEN [p EXCEPT !.rotation = (p.rotation + 1) % 4] ELSE p

RefIntents(f, p, keys) ==
    RefRotation(f,
                RefSoftDrop(f,
                            RefHorizontal(f, p, (IF keys.left THEN 1 ELSE 0)
                                                - (IF keys.right THEN 1 ELSE 0)),
                            keys.down),
                keys.z)

\* C13: in one tick each requested intent is handled on its own in the order
\* horizontal move, soft drop, rotation; a rejected intent (a horizontal move
\* to x below 0 included) changes nothing and does not stop the later intents.
C13_IntentsIndependent ==
    (pc = "done" /\ call.op = "player_input_system") =>
        piece = RefIntents(field, call.start, call.keys)


\* Reference lock: f with the cells piece p occupies set to shape_type + 1.
RefLock(f, p) ==
    [i \in Cells |->
        IF OccupiedAt(p, i % FIELD_WIDTH, i \div FIELD_WIDTH)
        THEN p.shape_type + 1 ELSE f[i]]

\* C14: within one tick the intents are applied before gravity: the n-th
\* gravity step runs after the n-th input step, and its fit check and any
\* lock use the piece as the intents of that tick left it.
C14_GravityAfterIntents ==
    [][/\ pc = "input" => (pc' = "gravity" /\ call'.start = piece)
       /\ pc = "gravity" =>
            /\ call.inputs = call.gravities + 1
            /\ last'.fired =>
                 IF RefFits(field, piece.shape_type, piece.rotation, piece.x, piece.y + 1)
                 THEN /\ ~last'.locked
                      /\ piece' = [piece EXCEPT !.y = piece.y + 1]
                      /\ field' = field
                 ELSE /\ last'.locked
                      /\ last'.lines = Cardinality(FullRowsOf(RefLock(field, piece)))]_vars

\* A tick whose intents moved the piece and whose gravity step then locked it.
C14_Witness ==
    /\ pc = "input"
    /\ call.op = "tick"
    /\ call.inputs = call.gravities
    /\ last.locked
    /\ piece # call.start


\* C15: GameOver is terminal: once the state is GameOver it never returns to
\* Playing, and no later step changes the Field, the Score or the active piece.
C15_GameOverTerminal ==
    [][state = "GameOver" =>
          /\ state' = "GameOver"
          /\ field' = field
          /\ score' = score
          /\ piece' = piece]_vars

\* The game has ended after at least one scored lock.
C15_Witness == state = "GameOver" /\ score > 0 /\ pc = "input"

\* C16: at every tick boundary no playable row has all its interior cells
\* non-zero: a row completed by a lock is cleared within the same tick.
C16_NoFullRowAtTickBoundary ==
    pc = "input" => FullRowsOf(field) = {}

\* The end of a tick whose lock completed rows.
C16_Witness ==
    /\ pc = "input"
    /\ last.locked
    /\ last.lines >= 1
    /\ FullRowsOf(field) = {}

\* C17: in a new field the cell (x, y) is 9 iff x = 0 or x = width-1 or
\* y = height-1, and 0 otherwise.
C17_NewFieldBorders ==
    (call.op = "tick" /\ call.inputs = 0 /\ call.gravities = 0) =>
        \A x \in 0 .. (FIELD_WIDTH - 1), y \in 0 .. (FIELD_HEIGHT - 1) :
            Cell(field, x, y) =
                IF x = 0 \/ x = FIELD_WIDTH - 1 \/ y = FIELD_HEIGHT - 1 THEN 9 ELSE 0

\* The state setup_game leaves: no system has run yet.
C17_Witness ==
    /\ call.op = "tick"
    /\ call.inputs = 0
    /\ call.gravities = 0
    /\ pc = "input"
    /\ Cell(field, 0, 0) = 9
    /\ Cell(field, 1, 0) = 0

\* The closed form of rotation state rs in 0..3.
ClosedForm(px, py, rs) ==
    CASE rs = 0 -> py * 4 + px
      [] rs = 1 -> 12 + py - px * 4
      [] rs = 2 -> 15 - py * 4 - px
      [] rs = 3 -> 3 - py + px * 4

\* C18: for px, py, r in 0..3, rotate(px, py, r) equals the closed form of
\* its rotation state and lies in 0..15.
C18_RotateClosedForm ==
    (pc = "done" /\ call.r \in 0 .. 3) =>
        /\ call.ret = ClosedForm(call.px, call.py, call.r)
        /\ call.ret \in 0 .. 15
        /\ (call.px = 1 /\ call.py = 0) =>
              call.ret = (CASE call.r = 0 -> 1 [] call.r = 1 -> 8
                            [] call.r = 2 -> 14 [] call.r = 3 -> 7)

\* A 90 degree call off the diagonal has returned.
C18_Witness ==
    /\ pc = "done"
    /\ call.op = "rotate"
    /\ call.r = 1
    /\ call.px = 1
    /\ call.py = 0
    /\ call.ret = 8

\* C19: for each fixed r in 0..3, rotate is a bijection from the 16 local
\* cells onto the indices 0..15.
C19_RotateBijection ==
    (pc = "done" /\ call.r \in 0 .. 3) =>
        /\ \A qx \in 0 .. 3, qy \in 0 .. 3 :
              (<<qx, qy>> # <<call.px, call.py>>) => rotate(qx, qy, call.r) # call.ret
        /\ {rotate(qx, qy, call.r) : qx \in 0 .. 3, qy \in 0 .. 3} = 0 .. 15

\* A 270 degree call has returned.
C19_Witness ==
    /\ pc = "done"
    /\ call.op = "rotate"
    /\ call.r = 3
    /\ call.ret \in 0 .. 15

\* C20: rotate is total over px, py in 0..3 and any integer r, negative r
\* included: r is reduced modulo 4 to a state in 0..3 and the call returns an
\* index in 0..15 without failing.
C20_RotateTotal ==
    pc = "done" =>
        /\ call.ret # Panic
        /\ call.ret \in 0 .. 15
        /\ call.ret = ClosedForm(call.px, call.py, call.r % 4)


\* C21: out-of-range coordinates never index the grid: get_block(x, y)
\* returns the stored cell when x < width and y < height and 9 otherwise,
\* and set_block with an out-of-range coordinate leaves every cell unchanged.
C21_BlockAccessBounded ==
    pc = "done" =>
        /\ call.op = "get_block" =>
              call.ret = IF call.x < FIELD_WIDTH /\ call.y < FIELD_HEIGHT
                         THEN call.pre[call.y * FIELD_WIDTH + call.x]
                         ELSE 9
        /\ call.op = "set_block" =>
              /\ DOMAIN field = Cells
              /\ (call.x >= FIELD_WIDTH \/ call.y >= FIELD_HEIGHT) => field = call.pre
              /\ (call.x < FIELD_WIDTH /\ call.y < FIELD_HEIGHT) =>
                    \A i \in Cells :
                        field[i] = IF i = call.y * FIELD_WIDTH + call.x
                                   THEN call.value ELSE call.pre[i]

\* A get_block past the right edge of a playable row has returned.
C21_Witness ==
    /\ pc = "done"
    /\ call.op = "get_block"
    /\ call.x = FIELD_WIDTH
    /\ call.y = 0
    /\ call.ret = 9


\* C22: a piece is locked into the field only in a tick where the fall timer
\* fired and the piece does not fit one row lower; when the timer fired and
\* the piece fits one row lower its y increases by exactly 1 and Field, Score
\* and GameState are unchanged; when the timer did not fire the gravity step
\* changes nothing.
C22_GravityStep ==
    [][LET fitsBelow == RefFits(field, piece.shape_type, piece.rotation,
                                piece.x, piece.y + 1)
       IN  /\ (field' # field \/ score' # score \/ state' # state) =>
                 /\ pc = "gravity"
                 /\ last'.fired
                 /\ last'.locked
                 /\ ~fitsBelow
           /\ pc = "gravity" =>
                 /\ last'.locked => (last'.fired /\ ~fitsBelow)
                 /\ (last'.fired /\ fitsBelow) =>
                       /\ piece' = [piece EXCEPT !.y = piece.y + 1]
                       /\ field' = field
                       /\ score' = score
                       /\ state' = state
                       /\ ~last'.locked
                 /\ ~last'.fired =>
                       /\ piece' = piece
                       /\ field' = field
                       /\ score' = score
                       /\ state' = state]_vars

\* A gravity step whose timer fired with room below has just moved the
\* piece down, before any lock.
C22_Witness ==
    /\ pc = "input"
    /\ last.fired
    /\ ~last.locked
    /\ piece.y = 2
    /\ score = 0


\* C23: while the state is Playing, at every tick boundary the active piece
\* fits: does_piece_fit(field, shape, rotation, x, y) is true, so no occupied
\* cell of the active piece overlaps a locked block or border cell or lies
\* outside the field.
C23_ActivePieceFits ==
    (state = "Playing" /\ pc = "input") =>
        /\ does_piece_fit(field, piece.shape_type, piece.rotation, piece.x, piece.y)
        /\ \A x \in 0 .. (FIELD_WIDTH - 1), y \in 0 .. (FIELD_HEIGHT - 1) :
              OccupiedAt(piece, x, y) => Cell(field, x, y) = 0


\* C25: in any state reachable by gameplay from a new field, a single lock
\* makes check_and_clear_lines return at most 4, so the Score change of one
\* tick is one of 0, 25, 225, 425, 825 or 1625.
C25_AtMostFourLines ==
    [][/\ pc = "gravity" /\ last'.locked =>
             /\ last'.lines = check_and_clear_lines(lock_piece(field, piece)).ret
             /\ last'.lines \in 0 .. 4
       /\ pc = "input" => score' = score
       /\ score' - score \in {0, 25, 225, 425, 825, 1625}]_vars

\* A lock has just cleared four lines at once.
C25_Witness ==
    /\ pc = "input"
    /\ last.locked
    /\ last.lines = 4
    /\ score >= 1625


\* C24: if the fall timer fires infinitely often while Playing, every active
\* piece is eventually locked: no intent or gravity step ever decreases the
\* active piece's y, y is bounded by the field height, and a gravity step
\* that cannot move the piece down locks it.
C24_EventuallyLocked ==
    /\ [][/\ piece'.y >= piece.y
          /\ (/\ pc = "gravity"
              /\ last'.fired
              /\ ~RefFits(field, piece.shape_type, piece.rotation,
                          piece.x, piece.y + 1)) => last'.locked]_vars
    /\ [](piece.y \in 0 .. (FIELD_HEIGHT - 1))
    /\ (pc = "gravity" /\ state = "Playing") ~> (pc = "input" /\ last.locked)

\* The piece has come down from the spawn row and a fired gravity step has
\* just locked it.
C24_Witness ==
    /\ pc = "input"
    /\ last.fired
    /\ last.locked
    /\ piece.y > 0

=============================================================================
